---- MODULE Spec2Model ----
(***************************************************************************)
(* Model of usdt_alert_bot.py: the EMA / MACD signal engine (ema,          *)
(* macd_cross_under, signal_for) and the run orchestrator main() with its  *)
(* durable de-duplication state.                                           *)
(*                                                                         *)
(* Numbers.  The program computes in float64.  The model computes the same *)
(* expressions over exact rationals extended with the not-a-number value   *)
(* NaN, which propagates through arithmetic and makes every comparison     *)
(* false, as in IEEE-754.  Rounding error of float64 is not modelled.      *)
(***************************************************************************)
EXTENDS Integers, Sequences, FiniteSets, TLC

\* ------------------------------------------------------------------------
\* Program constants
\* ------------------------------------------------------------------------
MinBars == 200
Ema50Len == 50
Ema100Len == 100
MacdFast == 12
MacdSlow == 26
MacdSignal == 9
MsPerSecond == 1000
SecondsPerMinute == 60
DayMs == 86400000

\* ------------------------------------------------------------------------
\* Bounds of the model
\* ------------------------------------------------------------------------
\* closes are drawn from 1..MaxPrice
MaxPrice == 3
\* price histories have MinBars-1 .. MinBars+ExtraBars bars
ExtraBars == 1
\* the latest bar closes at the end of one of the days 1..MaxDay
MaxDay == 2
\* the bar before the latest may also close at SpikePrice, far enough above
\* the flat part of the history to part the 50-period from the 100-period line
SpikePrice == 27
\* ema alone is applied to series of 0..MaxSeriesLen values
MaxSeriesLen == 4
\* and to the lengths -1..MaxEmaLength
MaxEmaLength == 5

\* ------------------------------------------------------------------------
\* float64 values: <<n, d>> with d > 0 is the number n/d in lowest terms,
\* <<0, 0>> is NaN
\* ------------------------------------------------------------------------
NaN == <<0, 0>>

IsNaN(x) == x[2] = 0

Abs(k) == IF k < 0 THEN -k ELSE k

RECURSIVE GCD(_, _)
GCD(a, b) == IF b = 0 THEN a ELSE GCD(b, a % b)

Rat(n, d) ==
    LET g == GCD(Abs(n), d)
    IN  <<n \div g, d \div g>>

Num(k) == <<k, 1>>

Add(x, y) ==
    IF IsNaN(x) \/ IsNaN(y) THEN NaN
    ELSE LET g == GCD(x[2], y[2])
         IN  Rat(x[1] * (y[2] \div g) + y[1] * (x[2] \div g), (x[2] \div g) * y[2])

Neg(x) == IF IsNaN(x) THEN NaN ELSE <<-x[1], x[2]>>

Sub(x, y) == Add(x, Neg(y))

Mul(x, y) ==
    IF IsNaN(x) \/ IsNaN(y) THEN NaN
    ELSE LET g1 == GCD(Abs(x[1]), y[2])
             g2 == GCD(Abs(y[1]), x[2])
         IN  IF x[1] = 0 \/ y[1] = 0 THEN Num(0)
             ELSE <<(x[1] \div g1) * (y[1] \div g2), (x[2] \div g2) * (y[2] \div g1)>>

\* x / k for an integer k > 0
DivInt(x, k) == Mul(x, Rat(1, k))

\* comparisons: false whenever an operand is NaN
Lt(x, y) ==
    /\ ~IsNaN(x)
    /\ ~IsNaN(y)
    /\ LET g == GCD(x[2], y[2])
       IN  x[1] * (y[2] \div g) < y[1] * (x[2] \div g)

Le(x, y) ==
    /\ ~IsNaN(x)
    /\ ~IsNaN(y)
    /\ LET g == GCD(x[2], y[2])
       IN  x[1] * (y[2] \div g) <= y[1] * (x[2] \div g)

Gt(x, y) == Lt(y, x)

Ge(x, y) == Le(y, x)

\* arr[-k] of Python: the k-th element from the end
Last(arr, k) == arr[Len(arr) - k + 1]

\* ------------------------------------------------------------------------
\* ema(arr, length)
\* ------------------------------------------------------------------------
\* The loops of ema run over up to 300 bars.  They are written as folds that
\* split the index range in two halves, first the left and then the right
\* half, which visits the bars in the order of the program's loop.

\* arr[lo-1] + ... + arr[hi-1] of Python (1-based lo..hi here)
RECURSIVE SumRange(_, _, _)
SumRange(arr, lo, hi) ==
    IF lo > hi THEN Num(0)
    ELSE IF lo = hi THEN arr[lo]
    ELSE LET mid == (lo + hi) \div 2
         IN  Add(SumRange(arr, lo, mid), SumRange(arr, mid + 1, hi))

\* np.mean(arr[:length])
MeanFirst(arr, length) == DivInt(SumRange(arr, 1, length), length)

\* the raw input takes the place of the previous output
EmaStep_RawInput(alpha, x, prev) == Add(Mul(alpha, x), Mul(Sub(Num(1), alpha), x))

\* prev = alpha*arr[i] + (1-alpha)*prev
EmaStep(alpha, x, prev) == Add(Mul(alpha, x), Mul(Sub(Num(1), alpha), prev))

\* for i in range(length, len(arr)): prev = ...; out[i] = prev
\* the values out[lo..hi] (1-based), given prev = out[lo-1]
RECURSIVE EmaLoop(_, _, _, _, _)
EmaLoop(arr, alpha, lo, hi, prev) ==
    IF lo > hi THEN <<>>
    ELSE IF lo = hi THEN <<EmaStep(alpha, arr[lo], prev)>>
    ELSE LET mid  == (lo + hi) \div 2
             left == EmaLoop(arr, alpha, lo, mid, prev)
         IN  left \o EmaLoop(arr, alpha, mid + 1, hi, left[Len(left)])

\* out is left at the zeros of np.zeros_like where no value is assigned, and
\* the early return is taken for length < 1 only
ema_NoSentinel(arr, length) ==
    IF length < 1 THEN arr
    ELSE LET alpha == Rat(2, length + 1)
             zeros(k) == [i \in 1..k |-> Num(0)]
         IN  IF Len(arr) >= length
             THEN LET seed == MeanFirst(arr, length)
                  IN  zeros(length - 1) \o <<seed>>
                          \o EmaLoop(arr, alpha, length + 1, Len(arr), seed)
             ELSE zeros(Len(arr))

ema(arr, length) ==
    IF length <= 1 THEN arr
    ELSE LET alpha == Rat(2, length + 1)
             nans(k) == [i \in 1..k |-> NaN]
         IN  IF Len(arr) >= length
             THEN LET seed == MeanFirst(arr, length)
                  IN  nans(length - 1) \o <<seed>>
                          \o EmaLoop(arr, alpha, length + 1, Len(arr), seed)
             ELSE nans(Len(arr))

\* macd = ema(close, fast) - ema(close, slow)
MacdLine(close, fast, slow) ==
    LET f == ema(close, fast)
        s == ema(close, slow)
    IN  [i \in 1..Len(close) |-> Sub(f[i], s[i])]

\* cu = (macd[1] >= sig[1]) and (macd[0] < sig[0]): Python indices 1 and 0 are
\* the second and the first bar of the history
macd_cross_under(close, fast, slow, signal) ==
    LET macd == MacdLine(close, fast, slow)
        sig  == ema(macd, signal)
    IN  Ge(macd[2], sig[2]) /\ Lt(macd[1], sig[1])

\* the four values that line 52 compares: macd[1], sig[1], macd[0], sig[0]
CrossUnderOperands(close, fast, slow, signal) ==
    LET macd == MacdLine(close, fast, slow)
        sig  == ema(macd, signal)
    IN  <<macd[2], sig[2], macd[1], sig[1]>>

\* ------------------------------------------------------------------------
\* klines(symbol): the market-data response and its conversion
\* ------------------------------------------------------------------------
\* A response of the klines endpoint is a list of n daily rows.  The model
\* draws histories that are flat at `base` up to the last two bars, which
\* close at c1 and c0; tm is the close time (ms) of the latest row, the only
\* element of tms that signal_for reads.
Prices == 1..MaxPrice

BarCounts == (MinBars - 1)..(MinBars + ExtraBars)

\* Binance daily bars close at the last millisecond of the day
CloseTimes == {d * DayMs - 1 : d \in 1..MaxDay}

Rows ==
    [n : BarCounts, base : Prices, c1 : Prices \cup {SpikePrice}, c0 : Prices,
     tm : CloseTimes]

\* close = np.array([float(x[4]) for x in rows])
CloseOf(rows) ==
    [i \in 1..rows.n |->
        Num(IF i = rows.n THEN rows.c0 ELSE IF i = rows.n - 1 THEN rows.c1 ELSE rows.base)]

\* (close, tms) as returned by klines; tms is represented by tms[-1]
klines(rows) == [close |-> CloseOf(rows), tmsLast |-> rows.tm]

\* last_bar_closed_utc(ms).strftime("%Y-%m-%d %H:%M UTC"): the instant cut to
\* the minute, represented by the number of whole minutes since the epoch
WhenOf(ms) == (ms \div MsPerSecond) \div SecondsPerMinute

\* ------------------------------------------------------------------------
\* signal_for(symbol)
\* ------------------------------------------------------------------------
Strategies == {"EMA50+EMAexit", "EMA100+EMAexit", "EMA50+MACDexit"}

\* a STRATEGY value outside the three variants (the final else branch)
UnknownStrategy == "EMA200+EMAexit"

None == [side |-> "None"]

\* entry of the three variants (lines 109, 117, 123)
Entry(strategy, c) ==
    LET c0 == Last(c, 1)
        c1 == Last(c, 2)
    IN  IF strategy = "EMA100+EMAexit"
        THEN LET ema100 == ema(c, Ema100Len)
             IN  Le(c1, Last(ema100, 2)) /\ Gt(c0, Last(ema100, 1))
        ELSE LET ema50 == ema(c, Ema50Len)
             IN  Le(c1, Last(ema50, 2)) /\ Gt(c0, Last(ema50, 1))

\* exit_ of EMA100+EMAexit is taken on the line of its entry
Exit_OnEntryLine(strategy, c) ==
    LET c0 == Last(c, 1)
        c1 == Last(c, 2)
    IN  IF strategy = "EMA50+MACDexit"
        THEN macd_cross_under(c, MacdFast, MacdSlow, MacdSignal)
        ELSE LET line == ema(c, IF strategy = "EMA100+EMAexit" THEN Ema100Len ELSE Ema50Len)
             IN  Ge(c1, Last(line, 2)) /\ Lt(c0, Last(line, 1))

\* the exit line is a copy of the entry line with only the first comparison
\* turned round
Exit_CopiedEntry(strategy, c) ==
    LET c0 == Last(c, 1)
        c1 == Last(c, 2)
    IN  IF strategy = "EMA50+MACDexit"
        THEN macd_cross_under(c, MacdFast, MacdSlow, MacdSignal)
        ELSE LET ema50 == ema(c, Ema50Len)
             IN  Ge(c1, Last(ema50, 2)) /\ Gt(c0, Last(ema50, 1))

\* exit_ of the three variants (lines 110, 118, 124)
Exit(strategy, c) ==
    LET c0 == Last(c, 1)
        c1 == Last(c, 2)
    IN  IF strategy = "EMA50+MACDexit"
        THEN macd_cross_under(c, MacdFast, MacdSlow, MacdSignal)
        ELSE LET ema50 == ema(c, Ema50Len)
             IN  Ge(c1, Last(ema50, 2)) /\ Lt(c0, Last(ema50, 1))

\* the sides of the two branches are exchanged
Decide_SidesSwapped(entry, exit, when, c0) ==
    IF entry THEN [side |-> "SELL", when |-> when, price |-> c0]
    ELSE IF exit THEN [side |-> "BUY", when |-> when, price |-> c0]
    ELSE None

\* lines 129-134: entry is tested first, then exit
Decide(entry, exit, when, c0) ==
    IF entry THEN [side |-> "BUY", when |-> when, price |-> c0]
    ELSE IF exit THEN [side |-> "SELL", when |-> when, price |-> c0]
    ELSE None

\* the length test is off by one
TooShort_OffByOne(close) == Len(close) < MinBars - 1

\* len(close) < 200 (line 101)
TooShort(close) == Len(close) < MinBars

signal_for(strategy, rows) ==
    LET k == klines(rows)
        c == k.close
    IN  IF TooShort(c) THEN None
        ELSE IF strategy \notin Strategies THEN None
        ELSE Decide(Entry(strategy, c), Exit(strategy, c), WhenOf(k.tmsLast), Last(c, 1))

\* ------------------------------------------------------------------------
\* binance_symbols_usdt()
\* ------------------------------------------------------------------------
\* Symbols are strings; a string is modelled as the sequence of its
\* characters so that endswith, `in` and sorted can be computed.
Alphabet ==
    <<"0", "1", "2", "3", "4", "5", "6", "7", "8", "9",
      "A", "B", "C", "D", "E", "F", "G", "H", "I", "J", "K", "L", "M",
      "N", "O", "P", "Q", "R", "S", "T", "U", "V", "W", "X", "Y", "Z">>

\* code-point order of the characters used
Ord(ch) == CHOOSE i \in 1..Len(Alphabet) : Alphabet[i] = ch

\* Python's < on strings
RECURSIVE StrLess(_, _)
StrLess(a, b) ==
    IF b = <<>> THEN FALSE
    ELSE IF a = <<>> THEN TRUE
    ELSE IF Head(a) = Head(b) THEN StrLess(Tail(a), Tail(b))
    ELSE Ord(Head(a)) < Ord(Head(b))

\* sym.endswith(suffix)
EndsWith(sym, suffix) ==
    /\ Len(suffix) <= Len(sym)
    /\ SubSeq(sym, Len(sym) - Len(suffix) + 1, Len(sym)) = suffix

\* x in sym
Contains(sym, x) ==
    \E i \in 1..(Len(sym) - Len(x) + 1) : SubSeq(sym, i, i + Len(x) - 1) = x

USDT == <<"U", "S", "D", "T">>

\* bad = ("UPUSDT","DOWNUSDT","BULLUSDT","BEARUSDT","3LUSDT","3SUSDT","5LUSDT","5SUSDT")
BadSuffixes ==
    { <<"U", "P">> \o USDT, <<"D", "O", "W", "N">> \o USDT,
      <<"B", "U", "L", "L">> \o USDT, <<"B", "E", "A", "R">> \o USDT,
      <<"3", "L">> \o USDT, <<"3", "S">> \o USDT,
      <<"5", "L">> \o USDT, <<"5", "S">> \o USDT }

\* ["BUSD","TUSD","FDUSD","USDC"]
StableNames ==
    { <<"B", "U", "S", "D">>, <<"T", "U", "S", "D">>,
      <<"F", "D", "U", "S", "D">>, <<"U", "S", "D", "C">> }

ADAUSDT == <<"A", "D", "A">> \o USDT
BTCUSDT == <<"B", "T", "C">> \o USDT
BTCUPUSDT == <<"B", "T", "C", "U", "P">> \o USDT
USDCUSDT == <<"U", "S", "D", "C">> \o USDT
ETHBTC == <<"E", "T", "H", "B", "T", "C">>

\* the entries that ex["symbols"] of an exchangeInfo response may hold
Listings ==
    { [symbol |-> BTCUSDT,   status |-> "TRADING", quoteAsset |-> "USDT"],
      [symbol |-> ADAUSDT,   status |-> "TRADING", quoteAsset |-> "USDT"],
      [symbol |-> ADAUSDT,   status |-> "BREAK",   quoteAsset |-> "USDT"],
      [symbol |-> BTCUPUSDT, status |-> "TRADING", quoteAsset |-> "USDT"],
      [symbol |-> USDCUSDT,  status |-> "TRADING", quoteAsset |-> "USDT"],
      [symbol |-> ETHBTC,    status |-> "TRADING", quoteAsset |-> "BTC"] }

\* an exchangeInfo response lists at most MaxListed entries
MaxListed == 2

ExchangeInfos ==
    UNION { { ex \in [1..k -> Listings] :
                \A i, j \in 1..k : i # j => ex[i].symbol # ex[j].symbol } : k \in 0..MaxListed }

\* the tests of lines 59-65 on one entry
Listed(s) ==
    /\ s.status = "TRADING"
    /\ s.quoteAsset = "USDT"
    /\ ~\E bad \in BadSuffixes : EndsWith(s.symbol, bad)
    /\ ~\E x \in StableNames : Contains(s.symbol, x)

\* Sorting by a string key.  The elements are tuples whose first component
\* is the key; x is inserted behind the elements that are not greater.
RECURSIVE InsertSorted(_, _)
InsertSorted(x, lst) ==
    IF lst = <<>> THEN <<x>>
    ELSE IF StrLess(x[1], Head(lst)[1]) THEN <<x>> \o lst
    ELSE <<Head(lst)>> \o InsertSorted(x, Tail(lst))

\* the list is left in the order it has
SortByKey_Unsorted(lst) == lst

\* a stable sort by the first component
RECURSIVE SortByKey(_)
SortByKey(lst) ==
    IF lst = <<>> THEN <<>>
    ELSE InsertSorted(lst[Len(lst)], SortByKey(SubSeq(lst, 1, Len(lst) - 1)))

\* sorted(syms)
Sorted(syms) ==
    LET srt == SortByKey([i \in 1..Len(syms) |-> <<syms[i]>>])
    IN  [i \in 1..Len(syms) |-> srt[i][1]]

binance_symbols_usdt(ex) ==
    LET kept == SelectSeq(ex, Listed)
    IN  Sorted([i \in 1..Len(kept) |-> kept[i].symbol])

\* the lists binance_symbols_usdt returns on the modelled responses
Universes == {binance_symbols_usdt(ex) : ex \in ExchangeInfos}

\* ------------------------------------------------------------------------
\* de-duplication state and notification
\* ------------------------------------------------------------------------
\* key = f"{sig['when']}_{sig['side']}"
KeyOf(sig) == <<sig.when, sig.side>>

\* the value of .get("key") when there is no entry
NoKey == <<>>

\* state.get(sym, {}).get("key")
StoredKey(st, sym) == IF sym \in DOMAIN st THEN st[sym] ELSE NoKey

\* the comparison reads a field the entries do not have
AlreadyAlerted_WrongField(st, sym, key) == NoKey = key

\* prev.get("key") == key (line 149)
AlreadyAlerted(st, sym, key) == StoredKey(st, sym) = key

\* the dict is replaced by one that holds the new entry alone
PutKey_DropsOthers(st, sym, key) == [x \in {sym} |-> key]

\* state[sym] = {"key": key} (line 151)
PutKey(st, sym, key) ==
    [x \in DOMAIN st \cup {sym} |-> IF x = sym THEN key ELSE st[x]]

\* the record of the responses: symbol sym was evaluated on resp
Visit(sn, sym, resp) ==
    [x \in DOMAIN sn \cup {sym} |-> IF x = sym THEN resp ELSE sn[x]]

\* load_state() of an absent file, and the dict {}
EmptyState == [x \in {} |-> NoKey]

\* one line of the message per alert (line 160); the header line carries no
\* alert and is left out
LinesOf(alerts) ==
    [i \in 1..Len(alerts) |->
        [sym |-> alerts[i][1], side |-> alerts[i][2].side,
         price |-> alerts[i][2].price, when |-> alerts[i][2].when]]

\* the market-data request of one symbol fails (network, HTTP status, parse)
Fault == [fault |-> "klines"]

\* the histories the market returns on day `d` in a run of main()
BasePrice == (MaxPrice + 1) \div 2

\* a history of MinBars bars whose last close is below, at or above the flat
\* line, or a history one bar short of MinBars that leaves the line, upwards
\* or downwards
DayRows(d) ==
    {r \in Rows : /\ r.tm = d * DayMs - 1
                  /\ r.base = BasePrice
                  /\ r.c1 = BasePrice
                  /\ \/ r.n = MinBars
                     \/ r.n = MinBars - 1 /\ r.c0 # BasePrice}

\* what klines(sym) can do on day d: return a history or raise
Responses ==
    UNION {{[day |-> d, resp |-> r] : r \in DayRows(d) \cup {Fault}} : d \in 1..MaxDay}

\* signal_for is a pure function of STRATEGY and the response.  Its values on
\* the histories of Responses are computed once.
SignalFacts ==
    {[strategy |-> s, rows |-> r, sig |-> signal_for(s, r)] :
        s \in Strategies \cup {UnknownStrategy}, r \in UNION {DayRows(d) : d \in 1..MaxDay}}

SignalOf(s, r) == (CHOOSE f \in SignalFacts : f.strategy = s /\ f.rows = r).sig

\* what requests.post does: "ok" the message is accepted, "rejected" an HTTP
\* error status comes back (no exception), "exception" the request raises
SinkOutcomes == {"ok", "rejected", "exception"}

VARIABLES
    STRATEGY,    \* the process configuration (line 24)
    rowsIn,      \* signal engine alone: the klines response
    sigOut,      \* signal engine alone: the value signal_for returned
    entryOut,    \* signal engine alone: the value of `entry` in that call
    exitOut,     \* signal engine alone: the value of `exit_` in that call
    arrIn,       \* ema alone: the argument arr
    lengthIn,    \* ema alone: the argument length
    emaOut,      \* ema alone: the array ema returned
    file,        \* the durable state file
    today,       \* the day whose bar is the latest one
    pc,          \* position of main()
    state,       \* main's dict `state`
    symbols,     \* main's list `symbols`
    idx,         \* position of the for loop in `symbols`
    alerts,      \* main's list `alerts`
    loaded,      \* this run: what load_state() returned
    seen,        \* this run: symbol -> klines response it was evaluated on
    reads,       \* this run: number of load_state calls
    writes,      \* this run: number of save_state calls
    sinkCalls,   \* this run: number of send_telegram calls
    sinkArg,     \* this run: the alert lines given to send_telegram
    sinkResult,  \* this run: outcome of send_telegram, "none" before it
    raised,      \* this run: the exception that left main(), "none" if none
    delivered,   \* the <<symbol, key>> pairs of today's bar that the sink
                 \* accepted in this or an earlier run
    prevAlerted, \* symbol -> response and signal, for the alerts the previous run
                 \* reported and persisted, if it ran on the same day
    lastSent     \* symbol -> key of its latest alert given to a call of
                 \* send_telegram that returned

engineVars == <<rowsIn, sigOut, entryOut, exitOut, arrIn, lengthIn, emaOut>>

runVars == <<pc, state, symbols, idx, alerts, loaded, seen, reads, writes, sinkCalls,
             sinkArg, sinkResult, raised>>

histVars == <<delivered, prevAlerted, lastSent>>

vars == <<STRATEGY, engineVars, file, today, runVars, histVars>>

Pending == [side |-> "Pending"]

\* ------------------------------------------------------------------------
\* main()
\* ------------------------------------------------------------------------
RunStart ==
    /\ pc = "start"
    /\ state = EmptyState
    /\ symbols = <<>>
    /\ idx = 1
    /\ alerts = <<>>
    /\ loaded = EmptyState
    /\ seen = EmptyState
    /\ reads = 0
    /\ writes = 0
    /\ sinkCalls = 0
    /\ sinkArg = <<>>
    /\ sinkResult = "none"
    /\ raised = "none"

\* a fresh process: the locals of the previous run are gone
RunReset ==
    /\ pc' = "start"
    /\ state' = EmptyState
    /\ symbols' = <<>>
    /\ idx' = 1
    /\ alerts' = <<>>
    /\ loaded' = EmptyState
    /\ seen' = EmptyState
    /\ reads' = 0
    /\ writes' = 0
    /\ sinkCalls' = 0
    /\ sinkArg' = <<>>
    /\ sinkResult' = "none"
    /\ raised' = "none"

Init ==
    /\ STRATEGY \in Strategies \cup {UnknownStrategy}
    /\ rowsIn = None
    /\ sigOut = None
    /\ entryOut = FALSE
    /\ exitOut = FALSE
    /\ arrIn = <<>>
    /\ lengthIn = 0
    /\ emaOut = Pending
    /\ file = EmptyState
    /\ today = 1
    /\ RunStart
    /\ delivered = {}
    /\ prevAlerted = EmptyState
    /\ lastSent = EmptyState

\* state = load_state()
LoadState ==
    /\ pc = "start"
    /\ state' = file
    /\ loaded' = file
    /\ reads' = reads + 1
    /\ pc' = "symbols"
    /\ UNCHANGED <<STRATEGY, engineVars, file, today, symbols, idx, alerts, seen,
                   writes, sinkCalls, sinkArg, sinkResult, raised, histVars>>

\* the failure is reported to the chat before it leaves main()
SymbolsFault_Notified ==
    /\ pc = "symbols"
    /\ raised' = "universe"
    /\ pc' = "aborted"
    /\ sinkCalls' = sinkCalls + 1
    /\ UNCHANGED <<STRATEGY, engineVars, file, today, state, symbols, idx, alerts,
                   loaded, seen, reads, writes, sinkArg, sinkResult, histVars>>

\* symbols = binance_symbols_usdt(): the request or the decoding fails and the
\* exception leaves main()
SymbolsFault ==
    /\ pc = "symbols"
    /\ raised' = "universe"
    /\ pc' = "aborted"
    /\ UNCHANGED <<STRATEGY, engineVars, file, today, state, symbols, idx, alerts,
                   loaded, seen, reads, writes, sinkCalls, sinkArg, sinkResult, histVars>>

\* symbols = binance_symbols_usdt(); alerts = []
BinanceSymbols ==
    /\ pc = "symbols"
    /\ symbols' \in Universes
    /\ alerts' = <<>>
    /\ idx' = 1
    /\ pc' = "loop"
    /\ UNCHANGED <<STRATEGY, engineVars, file, today, state, loaded, seen, reads, writes,
                   sinkCalls, sinkArg, sinkResult, raised, histVars>>

\* lines 147-152, for a signal sig of sym
Dedup(sym, sig) ==
    LET key == KeyOf(sig)
    IN  IF AlreadyAlerted(state, sym, key)
        THEN UNCHANGED <<state, alerts>>
        ELSE /\ state' = PutKey(state, sym, key)
             /\ alerts' = Append(alerts, <<sym, sig>>)

\* one pass of the for loop, on the response resp of the market to klines(sym)
LoopBody(sym, resp) ==
    IF resp = Fault
    THEN UNCHANGED <<state, alerts>>
    ELSE LET sig == SignalOf(STRATEGY, resp)
         IN  IF sig = None THEN UNCHANGED <<state, alerts>>
             ELSE Dedup(sym, sig)

\* signal_for is called outside a try block: a fault leaves main()
ForSymbol_NoTry ==
    /\ pc = "loop"
    /\ idx <= Len(symbols)
    /\ \E x \in {y \in Responses : y.day = today} :
          /\ LoopBody(symbols[idx], x.resp)
          /\ seen' = Visit(seen, symbols[idx], x.resp)
          /\ pc' = IF x.resp = Fault THEN "aborted" ELSE pc
          /\ raised' = IF x.resp = Fault THEN "klines" ELSE raised
    /\ idx' = idx + 1
    /\ UNCHANGED <<STRATEGY, engineVars, file, today, symbols, loaded, reads, writes,
                   sinkCalls, sinkArg, sinkResult, histVars>>

ForSymbol ==
    /\ pc = "loop"
    /\ idx <= Len(symbols)
    /\ \E x \in {y \in Responses : y.day = today} :
          /\ LoopBody(symbols[idx], x.resp)
          /\ seen' = Visit(seen, symbols[idx], x.resp)
    /\ idx' = idx + 1
    /\ UNCHANGED <<STRATEGY, engineVars, file, today, pc, symbols, loaded, reads, writes,
                   sinkCalls, sinkArg, sinkResult, raised, histVars>>

\* alerts.sort(key=lambda x: x[0]), after the loop
SortAlerts ==
    /\ pc = "loop"
    /\ idx > Len(symbols)
    /\ alerts' = SortByKey(alerts)
    /\ pc' = "notify"
    /\ UNCHANGED <<STRATEGY, engineVars, file, today, state, symbols, idx, loaded, seen,
                   reads, writes, sinkCalls, sinkArg, sinkResult, raised, histVars>>

\* the state is written back although nothing was reported
NoAlerts_Saves ==
    /\ pc = "notify"
    /\ alerts = <<>>
    /\ file' = state
    /\ writes' = writes + 1
    /\ pc' = "done"
    /\ UNCHANGED <<STRATEGY, engineVars, today, state, symbols, idx, alerts, loaded, seen,
                   reads, sinkCalls, sinkArg, sinkResult, raised, histVars>>

\* if alerts: is false
NoAlerts ==
    /\ pc = "notify"
    /\ alerts = <<>>
    /\ pc' = "done"
    /\ UNCHANGED <<STRATEGY, engineVars, file, today, state, symbols, idx, alerts,
                   loaded, seen, reads, writes, sinkCalls, sinkArg, sinkResult, raised,
                   histVars>>

\* the <<symbol, key>> pairs of a list of alerts
Reported(als) == {<<als[i][1], KeyOf(als[i][2])>> : i \in 1..Len(als)}

\* the record h of keys by symbol, brought up to date with a list of alerts
Recorded(h, als) ==
    LET syms == {als[i][1] : i \in 1..Len(als)}
    IN  [s \in DOMAIN h \cup syms |->
            IF s \in syms
            THEN KeyOf((CHOOSE a \in {als[i] : i \in 1..Len(als)} : a[1] = s)[2])
            ELSE h[s]]

\* an exception of the request is swallowed and main() goes on to save
AfterSend_Swallowed(outcome) == "save"

\* where main() goes after send_telegram: requests.post raises only when the
\* request itself fails; an HTTP error status is returned, not raised
AfterSend(outcome) == IF outcome = "exception" THEN "aborted" ELSE "save"

\* send_telegram("\n".join(lines))
SendTelegram ==
    /\ pc = "notify"
    /\ alerts # <<>>
    /\ \E outcome \in SinkOutcomes :
          /\ sinkResult' = outcome
          /\ pc' = AfterSend(outcome)
          /\ raised' = IF AfterSend(outcome) = "aborted" THEN "delivery" ELSE raised
          /\ delivered' = IF outcome = "ok" THEN delivered \cup Reported(alerts)
                           ELSE delivered
          /\ lastSent' = IF outcome = "exception" THEN lastSent
                          ELSE Recorded(lastSent, alerts)
    /\ sinkCalls' = sinkCalls + 1
    /\ sinkArg' = LinesOf(alerts)
    /\ UNCHANGED <<STRATEGY, engineVars, file, today, state, symbols, idx, alerts,
                   loaded, seen, reads, writes, prevAlerted>>

\* the state is saved before the message is sent
SaveState_BeforeSend ==
    /\ pc = "notify"
    /\ alerts # <<>>
    /\ writes = 0
    /\ file' = state
    /\ writes' = writes + 1
    /\ UNCHANGED <<STRATEGY, engineVars, today, pc, state, symbols, idx, alerts, loaded,
                   seen, reads, sinkCalls, sinkArg, sinkResult, raised, histVars>>

\* save_state(state)
SaveState ==
    /\ pc = "save"
    /\ file' = state
    /\ writes' = writes + 1
    /\ pc' = "done"
    /\ UNCHANGED <<STRATEGY, engineVars, today, state, symbols, idx, alerts, loaded, seen,
                   reads, sinkCalls, sinkArg, sinkResult, raised, histVars>>

\* the process ends and main() is started again, on the same or a later day.
\* On a later day every response carries a later close time: no fingerprint
\* and no response of the past day can come again, and the records of them
\* are dropped.
NextRun ==
    /\ pc \in {"done", "aborted"}
    /\ \/ /\ UNCHANGED <<today, delivered>>
          /\ prevAlerted' =
                IF writes > 0
                THEN [s \in {alerts[i][1] : i \in 1..Len(alerts)} |->
                        [rows |-> seen[s], sig |-> SignalOf(STRATEGY, seen[s])]]
                ELSE EmptyState
       \/ /\ today < MaxDay
          /\ today' = today + 1
          /\ delivered' = {}
          /\ prevAlerted' = EmptyState
    /\ RunReset
    /\ UNCHANGED <<STRATEGY, engineVars, file, lastSent>>

Next ==
    \/ LoadState
    \/ SymbolsFault
    \/ BinanceSymbols
    \/ ForSymbol
    \/ SortAlerts
    \/ NoAlerts
    \/ SendTelegram
    \/ SaveState
    \/ NextRun

Spec == Init /\ [][Next]_vars

\* ------------------------------------------------------------------------
\* Properties
\* ------------------------------------------------------------------------
\* the symbols of the collected alerts, and of the lines given to the sink
AlertSyms == {alerts[i][1] : i \in 1..Len(alerts)}

SinkSyms == {sinkArg[i].sym : i \in 1..Len(sinkArg)}

\* the for loop is over: every symbol of the universe has had its pass
AfterLoop ==
    \/ pc \in {"notify", "save", "done"}
    \/ pc = "aborted" /\ raised = "delivery"

\* C1: over all runs that share the state file, a fingerprint (when, side) of
\* a symbol is accepted by the notification sink at most once: no message
\* that the sink accepts holds a <<symbol, fingerprint>> pair that it accepted
\* before.
C1_AtMostOncePerFingerprint ==
    [][(pc = "notify" /\ sinkResult' = "ok") => Reported(alerts) \cap delivered = {}]_vars

\* C2: when the previous run reported an alert for a symbol and saved its
\* fingerprint, and this run evaluates the symbol on the identical response,
\* then this run computes the same signal, collects no alert for the symbol,
\* gives the sink no line for it and leaves its fingerprint as it was, in
\* memory and in the file.
C2_DedupIdempotent ==
    \A sym \in DOMAIN seen \cap DOMAIN prevAlerted :
        seen[sym] = prevAlerted[sym].rows =>
            /\ SignalOf(STRATEGY, seen[sym]) = prevAlerted[sym].sig
            /\ sym \notin AlertSyms
            /\ sym \notin SinkSyms
            /\ StoredKey(state, sym) = KeyOf(prevAlerted[sym].sig)
            /\ StoredKey(file, sym) = KeyOf(prevAlerted[sym].sig)

C2_Witness ==
    /\ pc = "done"
    /\ \E sym \in DOMAIN seen \cap DOMAIN prevAlerted : seen[sym] = prevAlerted[sym].rows

\* C3: in a run the state file is read exactly once, by the first step, and
\* written at most once; it is not written while the symbols are collected
\* or before the sink is called, and a write follows the one sink call of
\* the run.
C3_ReadOnceWriteAfterSink ==
    /\ reads = IF pc = "start" THEN 0 ELSE 1
    /\ writes <= 1
    /\ pc \in {"start", "symbols", "loop", "notify", "save", "aborted"} => writes = 0
    /\ writes = 0 => file = (IF pc = "start" THEN file ELSE loaded)
    /\ writes = 1 => sinkCalls = 1 /\ sinkResult # "none" /\ pc = "done"

C3_Witness == pc = "done" /\ writes = 1 /\ Len(sinkArg) = 2

\* C4: when the sink does not deliver (the request raises, or the sink
\* answers with an HTTP error status), the state file is not written and the
\* run ends with the delivery fault raised to the caller.
C4_NoPersistOnDeliveryFault ==
    sinkResult \in {"rejected", "exception"} =>
        /\ writes = 0
        /\ file = loaded
        /\ pc \in {"done", "aborted"} => raised = "delivery"

\* C5: faults of signal_for do not leave main(): after the loop every symbol
\* of the universe has been evaluated, a symbol whose evaluation raised has
\* no alert and its state entry is as loaded, and every other symbol is
\* in the alerts, with its signal, exactly when that signal is novel against
\* the loaded state.
C5_FaultIsolation ==
    /\ pc = "aborted" => raised \in {"universe", "delivery"}
    /\ pc = "loop" => DOMAIN seen = {symbols[i] : i \in 1..(idx - 1)}
    /\ (AfterLoop /\ \E s \in DOMAIN seen : seen[s] = Fault) =>
          /\ DOMAIN seen = {symbols[i] : i \in 1..Len(symbols)}
          /\ \A i \in 1..Len(symbols) :
                LET sym == symbols[i]
                IN  IF seen[sym] = Fault
                    THEN /\ sym \notin AlertSyms
                         /\ StoredKey(state, sym) = StoredKey(loaded, sym)
                         /\ (sym \in DOMAIN state) = (sym \in DOMAIN loaded)
                    ELSE LET sig == SignalOf(STRATEGY, seen[sym])
                             novel == sig # None /\ KeyOf(sig) # StoredKey(loaded, sym)
                         IN  /\ novel <=> <<sym, sig>> \in {alerts[j] : j \in 1..Len(alerts)}
                             /\ novel <=> sym \in AlertSyms

C5_Witness ==
    /\ pc = "done"
    /\ Len(symbols) = 2
    /\ seen[symbols[1]] = Fault
    /\ AlertSyms = {symbols[2]}
    /\ SinkSyms = {symbols[2]}

\* C6: when the symbol universe cannot be enumerated, the run is aborted by
\* that fault, the sink has not been called and the state file has not been
\* written.
C6_UniverseFaultAborts ==
    raised = "universe" =>
        /\ pc = "aborted"
        /\ sinkCalls = 0
        /\ sinkArg = <<>>
        /\ writes = 0
        /\ file = loaded

C6_Witness == raised = "universe" /\ file # EmptyState

\* C8: a symbol whose history has fewer than MinBars bars is evaluated
\* without a fault, is in no alert and in no line given to the sink, and its
\* state entry is neither created nor changed by the run.
C8_ShortHistoryAbstains ==
    \A sym \in DOMAIN seen :
        (seen[sym] # Fault /\ seen[sym].n < MinBars) =>
            /\ sym \notin AlertSyms
            /\ sym \notin SinkSyms
            /\ StoredKey(state, sym) = StoredKey(loaded, sym)
            /\ (sym \in DOMAIN state) = (sym \in DOMAIN loaded)
            /\ writes = 1 => StoredKey(file, sym) = StoredKey(loaded, sym)
            /\ raised \in {"none", "delivery"}

\* a short history that crosses the line upwards, of a symbol that has a
\* state entry, in a run that alerts for the other symbol and saves
C8_Witness ==
    /\ pc = "done"
    /\ writes = 1
    /\ \E sym \in DOMAIN seen \cap DOMAIN loaded :
          /\ seen[sym] # Fault
          /\ seen[sym].n < MinBars
          /\ seen[sym].c1 <= seen[sym].base
          /\ seen[sym].c0 > seen[sym].base

\* the symbols evaluated in this run whose signal is novel against the state
\* that the run loaded
NovelSyms ==
    {sym \in DOMAIN seen :
        /\ seen[sym] # Fault
        /\ SignalOf(STRATEGY, seen[sym]) # None
        /\ KeyOf(SignalOf(STRATEGY, seen[sym])) # StoredKey(loaded, sym)}

\* C11: a run calls the sink at most once and not before the loop is over;
\* a run that has ended or has passed the sink call has called the sink
\* exactly when the set of novel signals over all evaluated symbols is not
\* empty, and a run that ends with no novel signal has made no sink call and
\* no state write.
C11_SinkOnceIffNovel ==
    /\ sinkCalls <= 1
    /\ pc \in {"start", "symbols", "loop", "notify"} => sinkCalls = 0
    /\ pc \in {"save", "done", "aborted"} => (sinkCalls = 1 <=> NovelSyms # {})
    /\ (pc = "done" /\ NovelSyms = {}) =>
          /\ sinkCalls = 0
          /\ sinkArg = <<>>
          /\ writes = 0
          /\ file = loaded

\* a run that ends with a signal for a symbol, which is a duplicate of the
\* stored one, and with no novel signal
C11_Witness ==
    /\ pc = "done"
    /\ NovelSyms = {}
    /\ \E sym \in DOMAIN seen :
          seen[sym] # Fault /\ SignalOf(STRATEGY, seen[sym]) # None

\* C14: the lines given to the sink are in strictly ascending order of the
\* symbol under Python's string order, so no symbol has two lines; the
\* symbols of the lines are exactly the symbols with a novel signal, and the
\* line of a symbol carries the side, the price and the bar time of that
\* signal.
C14_SinkLinesSorted ==
    sinkCalls = 1 =>
        /\ \A i \in 1..(Len(sinkArg) - 1) : StrLess(sinkArg[i].sym, sinkArg[i + 1].sym)
        /\ SinkSyms = NovelSyms
        /\ Len(sinkArg) = Cardinality(NovelSyms)
        /\ \A i \in 1..Len(sinkArg) :
              LET sig == SignalOf(STRATEGY, seen[sinkArg[i].sym])
              IN  /\ sinkArg[i].side = sig.side
                  /\ sinkArg[i].price = sig.price
                  /\ sinkArg[i].when = sig.when

\* a message of two lines, of different sides
C14_Witness ==
    /\ sinkCalls = 1
    /\ Len(sinkArg) = 2
    /\ sinkArg[1].sym = ADAUSDT
    /\ sinkArg[2].sym = BTCUSDT
    /\ sinkArg[1].side # sinkArg[2].side

\* C16: against the state that the run loaded, the dict in memory differs
\* only at the symbols with a collected alert, where it holds the fingerprint
\* of that alert's signal; the file differs only after the write, and then
\* only at the symbols whose alert was in the message, where it holds that
\* fingerprint; every other entry, be its symbol without a signal, with a
\* duplicate signal, faulted or not in the universe, is as loaded, and no
\* entry of the loaded state is missing in memory or in the file.
C16_StateFrame ==
    pc # "start" =>
        /\ DOMAIN loaded \subseteq DOMAIN state
        /\ DOMAIN loaded \subseteq DOMAIN file
        /\ \A sym \in DOMAIN state :
              IF sym \in AlertSyms
              THEN state[sym] = KeyOf(SignalOf(STRATEGY, seen[sym]))
              ELSE sym \in DOMAIN loaded /\ state[sym] = loaded[sym]
        /\ \A sym \in DOMAIN file :
              IF writes = 1 /\ sym \in SinkSyms
              THEN file[sym] = KeyOf(SignalOf(STRATEGY, seen[sym]))
              ELSE sym \in DOMAIN loaded /\ file[sym] = loaded[sym]

\* a run that overwrites the entry of one symbol while the other entry is of
\* a symbol that has left the universe
C16_Witness ==
    /\ pc = "done"
    /\ writes = 1
    /\ \E sym \in DOMAIN loaded : sym \notin {symbols[i] : i \in 1..Len(symbols)}
    /\ \E sym \in DOMAIN loaded \cap SinkSyms : file[sym] # loaded[sym]

\* C18: a process whose STRATEGY is none of the three variants fails with an
\* error: its run does not end normally with no alert.
C18_UnknownStrategyIsError ==
    STRATEGY \notin Strategies => ~(pc = "done" /\ raised = "none" /\ alerts = <<>>)

\* the key of the line that the message of this run holds for sym
SunkKey(sym) ==
    LET line == CHOOSE l \in {sinkArg[i] : i \in 1..Len(sinkArg)} : l.sym = sym
    IN  <<line.when, line.side>>

\* C19, as stated, at the end of a run that called the sink: for a symbol in
\* the message the most recent alert given to the sink is the one of this
\* run, so the file holds no fingerprint for the symbol or the fingerprint
\* of this run's alert.
C19_FileIsLastSunk ==
    (pc \in {"done", "aborted"} /\ sinkCalls = 1) =>
        \A sym \in DOMAIN file \cap SinkSyms : file[sym] = SunkKey(sym)

\* C19, amended: whenever no write of the file is pending, the file holds a
\* fingerprint for exactly the symbols for which an alert was given to a
\* sink call that returned without raising, in whatever run, and for each
\* of them the fingerprint of the latest such alert; at all times the file
\* holds fingerprints only for symbols for which such a sink call was made.
C19_FileIsLastSent ==
    /\ DOMAIN file \subseteq DOMAIN lastSent
    /\ pc # "save" =>
          /\ DOMAIN file = DOMAIN lastSent
          /\ \A sym \in DOMAIN file : file[sym] = lastSent[sym]

\* after a run that was aborted by an exception of the sink, the file holds
\* an older fingerprint of a symbol than the one given to the sink
C19_Witness ==
    /\ pc = "aborted"
    /\ sinkResult = "exception"
    /\ \E sym \in DOMAIN file \cap SinkSyms :
          file[sym] # SunkKey(sym) /\ file[sym] = lastSent[sym]

\* ------------------------------------------------------------------------
\* the signal engine alone: signal_for on every modelled response
\* ------------------------------------------------------------------------
InitSignal ==
    /\ STRATEGY \in Strategies \cup {UnknownStrategy}
    /\ rowsIn \in Rows
    /\ sigOut = Pending
    /\ entryOut = FALSE
    /\ exitOut = FALSE
    /\ arrIn = <<>>
    /\ lengthIn = 0
    /\ emaOut = Pending
    /\ file = EmptyState
    /\ today = 1
    /\ RunStart
    /\ delivered = {}
    /\ prevAlerted = EmptyState
    /\ lastSent = EmptyState

\* entry and exit_ are assigned only on the three strategy branches, past the
\* length test
Evaluated == STRATEGY \in Strategies /\ ~TooShort(CloseOf(rowsIn))

CallSignalFor ==
    /\ sigOut = Pending
    /\ sigOut' = signal_for(STRATEGY, rowsIn)
    /\ entryOut' = (Evaluated /\ Entry(STRATEGY, CloseOf(rowsIn)))
    /\ exitOut' = (Evaluated /\ Exit(STRATEGY, CloseOf(rowsIn)))
    /\ UNCHANGED <<STRATEGY, rowsIn, arrIn, lengthIn, emaOut, file, today, runVars,
                   histVars>>

NextSignal == CallSignalFor

SpecSignal == InitSignal /\ [][NextSignal]_vars

\* the signal engine has been applied to a history long enough, under one of
\* the three variants
Called == sigOut # Pending /\ STRATEGY \in Strategies /\ rowsIn.n >= MinBars

\* The MACD signal line of the specification: the EMA of period MacdSignal of
\* the MACD line, taken over the bars on which the MACD line is defined (from
\* bar MacdSlow on).
RefMacdSig(close) ==
    LET macd == MacdLine(close, MacdFast, MacdSlow)
    IN  ema(SubSeq(macd, MacdSlow, Len(macd)), MacdSignal)

\* the MACD line was at or above the signal line on the prior bar and is
\* strictly below it on the latest bar
RefCrossUnder(close) ==
    LET macd == MacdLine(close, MacdFast, MacdSlow)
        sig  == RefMacdSig(close)
    IN  Ge(Last(macd, 2), Last(sig, 2)) /\ Lt(Last(macd, 1), Last(sig, 1))

\* C7: under EMA50+MACDexit the exit condition is true exactly when the MACD
\* line crosses under its signal line on the last two bars, and when entry is
\* false and the lines cross so, signal_for returns SELL.
C7_MacdExitOnLatestBars ==
    (Called /\ STRATEGY = "EMA50+MACDexit") =>
        LET cross == RefCrossUnder(CloseOf(rowsIn))
        IN  /\ exitOut <=> cross
            /\ (~entryOut /\ cross) => sigOut.side = "SELL"

\* C15: on a history of at least MinBars closes the 50-period and the
\* 100-period EMA are numbers, not NaN, on the last two bars, and under
\* EMA50+MACDexit the four values that macd_cross_under compares, the MACD
\* line and its signal line on two bars, are numbers as well.
C15_ComparedValuesDefined ==
    Called =>
        LET close == CloseOf(rowsIn)
            e50   == ema(close, Ema50Len)
            e100  == ema(close, Ema100Len)
            ops   == CrossUnderOperands(close, MacdFast, MacdSlow, MacdSignal)
        IN  /\ ~IsNaN(Last(e50, 1)) /\ ~IsNaN(Last(e50, 2))
            /\ ~IsNaN(Last(e100, 1)) /\ ~IsNaN(Last(e100, 2))
            /\ STRATEGY = "EMA50+MACDexit" => \A i \in 1..4 : ~IsNaN(ops[i])

\* a price p against a value e of a line: false when e is NaN
AtOrBelow(p, e) == e[2] > 0 /\ p * e[2] <= e[1]

AtOrAbove(p, e) == e[2] > 0 /\ p * e[2] >= e[1]

Above(p, e) == e[2] > 0 /\ p * e[2] > e[1]

Below(p, e) == e[2] > 0 /\ p * e[2] < e[1]

\* C17: under EMA50+EMAexit entry is true exactly when the prior close is at
\* or below the 50-period line and the latest close is above it, under
\* EMA100+EMAexit exactly when the same holds of the 100-period line; under
\* both variants exit_ is true exactly when the prior close is at or above
\* the 50-period line and the latest close is below it.  Each close is
\* compared with the value of the line on its own bar.
C17_EmaExitTable ==
    (Called /\ STRATEGY \in {"EMA50+EMAexit", "EMA100+EMAexit"}) =>
        LET close == CloseOf(rowsIn)
            e50   == ema(close, Ema50Len)
            e100  == ema(close, Ema100Len)
            line  == IF STRATEGY = "EMA50+EMAexit" THEN e50 ELSE e100
        IN  /\ entryOut <=> (AtOrBelow(rowsIn.c1, Last(line, 2)) /\ Above(rowsIn.c0, Last(line, 1)))
            /\ exitOut <=> (AtOrAbove(rowsIn.c1, Last(e50, 2)) /\ Below(rowsIn.c0, Last(e50, 1)))

\* EMA100+EMAexit exits on a latest close that is below the 50-period line
\* and above the 100-period line
C17_Witness ==
    /\ Called
    /\ STRATEGY = "EMA100+EMAexit"
    /\ exitOut
    /\ Above(rowsIn.c0, Last(ema(CloseOf(rowsIn), Ema100Len), 1))

\* C9: for each of the three variants and every history of at least MinBars
\* bars, entry and exit_ of one call of signal_for are not both true.
C9_EntryExitExclusive == Called => ~(entryOut /\ exitOut)

\* entry holds with the prior close exactly on the 50-period line, where the
\* first comparison of exit_ holds as well
C9_Witness ==
    /\ Called
    /\ STRATEGY = "EMA100+EMAexit"
    /\ entryOut
    /\ rowsIn.c1 = rowsIn.base
    /\ Ge(Num(rowsIn.c1), Last(ema(CloseOf(rowsIn), Ema50Len), 2))

\* C10: signal_for returns BUY exactly when entry is true, SELL exactly when
\* entry is false and exit_ is true, and no signal exactly when both are
\* false; a signal carries the latest close as price and, as when, the
\* minute in which the latest bar closes.
C10_EntryThenExit ==
    Called =>
        /\ sigOut.side \in {"BUY", "SELL", "None"}
        /\ sigOut.side = "BUY" <=> entryOut
        /\ sigOut.side = "SELL" <=> (~entryOut /\ exitOut)
        /\ sigOut = None <=> (~entryOut /\ ~exitOut)
        /\ sigOut # None =>
              /\ sigOut.price = Num(rowsIn.c0)
              /\ sigOut.when * (MsPerSecond * SecondsPerMinute) <= rowsIn.tm
              /\ rowsIn.tm < (sigOut.when + 1) * (MsPerSecond * SecondsPerMinute)

\* a SELL on the second day, from a close that falls through the line
C10_Witness ==
    /\ Called
    /\ sigOut.side = "SELL"
    /\ exitOut
    /\ rowsIn.tm > DayMs
    /\ rowsIn.c0 < rowsIn.c1

\* ------------------------------------------------------------------------
\* ema alone: one call on every modelled series and length
\* ------------------------------------------------------------------------
\* the values of an input array: numbers, and NaN as in the MACD line that
\* macd_cross_under hands to ema
Values == {Num(p) : p \in Prices} \cup {NaN}

Series == UNION {[1..n -> Values] : n \in 0..MaxSeriesLen}

Lengths == -1..MaxEmaLength

InitEma ==
    /\ STRATEGY \in Strategies
    /\ rowsIn = None
    /\ sigOut = None
    /\ entryOut = FALSE
    /\ exitOut = FALSE
    /\ arrIn \in Series
    /\ lengthIn \in Lengths
    /\ emaOut = Pending
    /\ file = EmptyState
    /\ today = 1
    /\ RunStart
    /\ delivered = {}
    /\ prevAlerted = EmptyState
    /\ lastSent = EmptyState

CallEma ==
    /\ emaOut = Pending
    /\ emaOut' = [out |-> ema(arrIn, lengthIn)]
    /\ UNCHANGED <<STRATEGY, rowsIn, sigOut, entryOut, exitOut, arrIn, lengthIn, file,
                   today, runVars, histVars>>

NextEma == CallEma

SpecEma == InitEma /\ [][NextEma]_vars

\* arr[0] + ... + arr[n-1], summed from the left
RECURSIVE RefSum(_, _)
RefSum(arr, n) == IF n = 0 THEN Num(0) ELSE Add(RefSum(arr, n - 1), arr[n])

\* C12: for length > 1 and a series of at least length values, the array
\* that ema returns has the length of the series, is NaN at the (0-based)
\* indices below length-1, is the arithmetic mean of the first length
\* values at index length-1, and at every index i >= length is
\* alpha*arr[i] + (1-alpha)*out[i-1] with alpha = 2/(length+1).
C12_EmaReference ==
    (emaOut # Pending /\ lengthIn > 1 /\ Len(arrIn) >= lengthIn) =>
        LET out   == emaOut.out
            alpha == Rat(2, lengthIn + 1)
        IN  /\ Len(out) = Len(arrIn)
            /\ \A i \in 1..(lengthIn - 1) : IsNaN(out[i])
            /\ out[lengthIn] = Mul(RefSum(arrIn, lengthIn), Rat(1, lengthIn))
            /\ \A i \in (lengthIn + 1)..Len(arrIn) :
                  out[i] = Add(Mul(alpha, arrIn[i]), Mul(Sub(Num(1), alpha), out[i - 1]))

\* two steps of the recurrence after the seed, on values that differ
C12_Witness ==
    /\ emaOut # Pending
    /\ lengthIn = 2
    /\ arrIn = <<Num(1), Num(2), Num(MaxPrice), Num(1)>>
    /\ emaOut.out[3] # emaOut.out[2]
    /\ emaOut.out[4] # emaOut.out[3]

\* C13: for every length <= 1 the array that ema returns is the input,
\* element by element; for length > 1 and a series of fewer than length
\* values it has the length of the series and every element is NaN.
C13_EmaDegenerate ==
    emaOut # Pending =>
        LET out == emaOut.out
        IN  /\ lengthIn <= 1 =>
                  /\ Len(out) = Len(arrIn)
                  /\ \A i \in 1..Len(arrIn) : out[i] = arrIn[i]
            /\ (lengthIn > 1 /\ Len(arrIn) < lengthIn) =>
                  /\ Len(out) = Len(arrIn)
                  /\ \A i \in 1..Len(arrIn) : IsNaN(out[i])

\* a series of three numbers under a length of four
C13_Witness ==
    /\ emaOut # Pending
    /\ lengthIn = 4
    /\ Len(arrIn) = 3
    /\ \A i \in 1..3 : ~IsNaN(arrIn[i])

====
